---- MODULE Spec2Model ----
(***************************************************************************)
(* Timetable merge-and-resolve engine of unisync-be (src/src/solver).      *)
(*                                                                         *)
(* Strings are sequences of one-character strings, so that trim,           *)
(* toLowerCase, the regular expressions, the template strings and split    *)
(* are computed as the code computes them.  An Assignment object is        *)
(* identified by its position in the assignments array: the arrays that    *)
(* hold references to Assignments (the per-source groups, a Conflict's     *)
(* conflictingEntries) hold such positions.                                *)
(***************************************************************************)
EXTENDS Integers, Sequences, FiniteSets, TLC

VARIABLES pc, rows, validRows, idx, assignments, separatedTimetables,
          occupiedSlots, conflicts, trace, history, norm

vars == <<pc, rows, validRows, idx, assignments, separatedTimetables,
          occupiedSlots, conflicts, trace, history, norm>>

(***************************************************************************)
(* Bounds of the model.                                                    *)
(***************************************************************************)
\* longest input of a call drawn from RowPool
MaxRows == 3
\* longest input of a call made of rows that all ask for one slot
MaxFill == 31
\* number of calls whose results the caller keeps
MaxCalls == 3
\* most slots of the grid left free in an index handed to the search
MaxFree == 2

(***************************************************************************)
(* JavaScript values.                                                      *)
(***************************************************************************)
\* the value of an absent optional field; no string equals it
Undefined == <<"undefined">>
\* the null returned by findNextAvailableSlot; no string equals it
Null == <<"null">>

\* x || "" on an optional string
OrEmpty(x) == IF x = Undefined THEN <<>> ELSE x

\* truthiness of an optional string
Truthy(x) == x # Undefined /\ x # <<>>

UpperChars == <<"A","B","C","D","E","F","G","H","I","J","K","L","M",
                "N","O","P","Q","R","S","T","U","V","W","X","Y","Z">>
LowerChars == <<"a","b","c","d","e","f","g","h","i","j","k","l","m",
                "n","o","p","q","r","s","t","u","v","w","x","y","z">>
DigitChars == <<"0","1","2","3","4","5","6","7","8","9">>

IsSpace(c) == c \in {" ", "\t", "\n", "\r"}
IsDigit(c) == \E k \in 1..10 : DigitChars[k] = c
DigitVal(c) == (CHOOSE k \in 1..10 : DigitChars[k] = c) - 1

ToLowerChar(c) ==
  IF \E k \in 1..26 : UpperChars[k] = c
  THEN LowerChars[CHOOSE k \in 1..26 : UpperChars[k] = c]
  ELSE c

\* String.prototype.toLowerCase
ToLowerCase(s) == [k \in 1..Len(s) |-> ToLowerChar(s[k])]

RECURSIVE TrimStart(_)
TrimStart(s) ==
  IF s # <<>> /\ IsSpace(Head(s)) THEN TrimStart(Tail(s)) ELSE s

RECURSIVE TrimEnd(_)
TrimEnd(s) ==
  IF s # <<>> /\ IsSpace(s[Len(s)]) THEN TrimEnd(SubSeq(s, 1, Len(s) - 1)) ELSE s

\* String.prototype.trim
Trim(s) == TrimEnd(TrimStart(s))

\* String.prototype.includes for a one-character needle
Includes(s, c) == \E k \in 1..Len(s) : s[k] = c

\* String.prototype.split for a one-character separator
RECURSIVE Split(_, _)
Split(s, c) ==
  IF ~Includes(s, c) THEN <<s>>
  ELSE LET k == CHOOSE n \in 1..Len(s) :
                   s[n] = c /\ \A m \in 1..(n - 1) : s[m] # c
       IN  <<SubSeq(s, 1, k - 1)>> \o Split(SubSeq(s, k + 1, Len(s)), c)

\* Array.prototype.indexOf, 0-based, -1 when absent
IndexOf(arr, x) ==
  IF \E k \in 1..Len(arr) : arr[k] = x
  THEN (CHOOSE k \in 1..Len(arr) : arr[k] = x /\ \A m \in 1..(k - 1) : arr[m] # x) - 1
  ELSE -1

\* the keys of a sequence in order of first appearance (a Map's key order)
RECURSIVE FirstSeen(_)
FirstSeen(s) ==
  IF s = <<>> THEN <<>>
  ELSE LET init == FirstSeen(SubSeq(s, 1, Len(s) - 1))
           x == s[Len(s)]
       IN  IF \E k \in 1..Len(init) : init[k] = x THEN init ELSE Append(init, x)

RECURSIVE Concat(_)
Concat(ss) == IF ss = <<>> THEN <<>> ELSE Head(ss) \o Concat(Tail(ss))

(***************************************************************************)
(* Grid model.                                                             *)
(***************************************************************************)
DAYS == << <<"M","o","n">>, <<"T","u","e">>, <<"W","e","d">>,
           <<"T","h","u">>, <<"F","r","i">> >>
PERIODS == << <<"P","1">>, <<"P","2">>, <<"P","3">>,
              <<"P","4">>, <<"P","5">>, <<"P","6">> >>

\* the template string `${day}-${period}`
SlotKey(day, period) == day \o <<"-">> \o period

\* the 30 canonical keys
Grid == { SlotKey(DAYS[d], PERIODS[p]) : d \in 1..Len(DAYS), p \in 1..Len(PERIODS) }

(***************************************************************************)
(* Normalizer.                                                             *)
(***************************************************************************)
dayMappings ==
  << << <<"m","o","n","d","a","y">>, DAYS[1] >>,
     << <<"t","u","e","s","d","a","y">>, DAYS[2] >>,
     << <<"w","e","d","n","e","s","d","a","y">>, DAYS[3] >>,
     << <<"t","h","u","r","s","d","a","y">>, DAYS[4] >>,
     << <<"f","r","i","d","a","y">>, DAYS[5] >>,
     << <<"m","o","n">>, DAYS[1] >>,
     << <<"t","u","e">>, DAYS[2] >>,
     << <<"w","e","d">>, DAYS[3] >>,
     << <<"t","h","u">>, DAYS[4] >>,
     << <<"f","r","i">>, DAYS[5] >> >>

\* fault: the table is looked up with the day as written
normalizeDay_CaseSensitive(day) ==
  IF \E k \in 1..Len(dayMappings) : dayMappings[k][1] = day
  THEN dayMappings[CHOOSE k \in 1..Len(dayMappings) : dayMappings[k][1] = day][2]
  ELSE day

normalizeDay(day) ==
  LET dayLower == ToLowerCase(day)
  IN  IF \E k \in 1..Len(dayMappings) : dayMappings[k][1] = dayLower
      THEN dayMappings[CHOOSE k \in 1..Len(dayMappings) : dayMappings[k][1] = dayLower][2]
      ELSE day

\* the first run of digits of s, <<>> when s has no digit: match(/(\d+)/)
FirstDigits(s) ==
  IF ~\E k \in 1..Len(s) : IsDigit(s[k]) THEN <<>>
  ELSE LET b == CHOOSE k \in 1..Len(s) :
                   IsDigit(s[k]) /\ \A m \in 1..(k - 1) : ~IsDigit(s[m])
           e == CHOOSE k \in b..Len(s) :
                   /\ \A m \in b..k : IsDigit(s[m])
                   /\ (k = Len(s) \/ ~IsDigit(s[k + 1]))
       IN  SubSeq(s, b, e)

\* parseInt of a run of digits
RECURSIVE ParseInt(_)
ParseInt(ds) ==
  IF ds = <<>> THEN 0
  ELSE 10 * ParseInt(SubSeq(ds, 1, Len(ds) - 1)) + DigitVal(ds[Len(ds)])

normalizePeriod(period) ==
  LET periodMatch == FirstDigits(period)
      periodNum == ParseInt(periodMatch)
  IN  IF periodMatch # <<>> /\ periodNum >= 1 /\ periodNum <= 6
      THEN <<"P", DigitChars[periodNum + 1]>>
      ELSE period

\* replace(/^period\s*/i, "P")
ReplacePeriodPrefix(s) ==
  IF Len(s) >= 6 /\ ToLowerCase(SubSeq(s, 1, 6)) = <<"p","e","r","i","o","d">>
  THEN <<"P">> \o TrimStart(SubSeq(s, 7, Len(s)))
  ELSE s

slotFromRow(r) ==
  LET day == Trim(OrEmpty(r.day))
      period == Trim(ReplacePeriodPrefix(OrEmpty(r.period)))
      normalizedDay == normalizeDay(day)
      normalizedPeriod == normalizePeriod(period)
  IN  IF normalizedDay = <<>> \/ normalizedPeriod = <<>> THEN <<>>
      ELSE SlotKey(normalizedDay, normalizedPeriod)

(***************************************************************************)
(* Occupancy index: a Map from slot key to three Sets, modelled as a       *)
(* function whose domain is the set of keys present.                       *)
(***************************************************************************)
\* fault: a slot that has an entry in the index is never available
isSlotAvailable_AnyOccupant(slot, teacher, room, group, occ) == slot \notin DOMAIN occ

\* fault: the teacher is not looked up
isSlotAvailable_IgnoresTeacher(slot, teacher, room, group, occ) ==
  IF slot \notin DOMAIN occ THEN TRUE
  ELSE LET slotData == occ[slot]
           roomConflict == room # <<>> /\ room \in slotData.rooms
           groupConflict == group # <<>> /\ group \in slotData.groups
       IN  ~roomConflict /\ ~groupConflict

isSlotAvailable(slot, teacher, room, group, occ) ==
  IF slot \notin DOMAIN occ THEN TRUE
  ELSE LET slotData == occ[slot]
           teacherConflict == teacher # <<>> /\ teacher \in slotData.teachers
           roomConflict == room # <<>> /\ room \in slotData.rooms
           groupConflict == group # <<>> /\ group \in slotData.groups
       IN  ~teacherConflict /\ ~roomConflict /\ ~groupConflict

\* the Set after `if (x && x.trim()) set.add(x.trim())`
AddTrimmed(set, x) == IF x # <<>> /\ Trim(x) # <<>> THEN set \cup {Trim(x)} ELSE set

\* fault: the room is added to the Set of teachers
addToSlot_RoomAmongTeachers(slot, teacher, room, group, occ) ==
  LET slotData == IF slot \in DOMAIN occ THEN occ[slot]
                  ELSE [teachers |-> {}, rooms |-> {}, groups |-> {}]
      updated == [teachers |-> AddTrimmed(AddTrimmed(slotData.teachers, teacher), room),
                  rooms |-> slotData.rooms,
                  groups |-> AddTrimmed(slotData.groups, group)]
  IN  [s \in DOMAIN occ \cup {slot} |-> IF s = slot THEN updated ELSE occ[s]]

\* fault: the entry of the slot is set anew on every commit
addToSlot_Replace(slot, teacher, room, group, occ) ==
  LET updated == [teachers |-> AddTrimmed({}, teacher),
                  rooms |-> AddTrimmed({}, room),
                  groups |-> AddTrimmed({}, group)]
  IN  [s \in DOMAIN occ \cup {slot} |-> IF s = slot THEN updated ELSE occ[s]]

addToSlot(slot, teacher, room, group, occ) ==
  LET slotData == IF slot \in DOMAIN occ THEN occ[slot]
                  ELSE [teachers |-> {}, rooms |-> {}, groups |-> {}]
      updated == [teachers |-> AddTrimmed(slotData.teachers, teacher),
                  rooms |-> AddTrimmed(slotData.rooms, room),
                  groups |-> AddTrimmed(slotData.groups, group)]
  IN  [s \in DOMAIN occ \cup {slot} |-> IF s = slot THEN updated ELSE occ[s]]

(***************************************************************************)
(* Relocation search.  dayIndex and periodIndex are 0-based as in the      *)
(* code; the sequences are 1-based.                                        *)
(***************************************************************************)
\* fault: the later periods are scanned from the last one down
NextPeriodsSameDay_Descending(currentDay, periodIndex) ==
  [k \in 1..(Len(PERIODS) - periodIndex - 1) |->
     SlotKey(currentDay, PERIODS[Len(PERIODS) - k + 1])]

\* for (p = periodIndex + 1; p < PERIODS.length; p++)
NextPeriodsSameDay(currentDay, periodIndex) ==
  [k \in 1..(Len(PERIODS) - periodIndex - 1) |->
     SlotKey(currentDay, PERIODS[periodIndex + 1 + k])]

\* fault: the periods of a day are scanned from the last to the first
AllPeriodsOfDay_Descending(d) ==
  [k \in 1..Len(PERIODS) |-> SlotKey(DAYS[d + 1], PERIODS[Len(PERIODS) - k + 1])]

\* for (p = 0; p < PERIODS.length; p++) on day d (0-based)
AllPeriodsOfDay(d) == [k \in 1..Len(PERIODS) |-> SlotKey(DAYS[d + 1], PERIODS[k])]

\* fault: the scan of the later days starts at dayIndex
NextDays_FromCurrentDay(dayIndex) ==
  Concat([k \in 1..(Len(DAYS) - dayIndex) |-> AllPeriodsOfDay(dayIndex + k - 1)])

\* for (d = dayIndex + 1; d < DAYS.length; d++)
NextDays(dayIndex) ==
  Concat([k \in 1..(Len(DAYS) - dayIndex - 1) |-> AllPeriodsOfDay(dayIndex + k)])

\* fault: the scan of the earlier periods starts at periodIndex
PreviousPeriodsSameDay_FromCurrent(currentDay, periodIndex) ==
  [k \in 1..(periodIndex + 1) |-> SlotKey(currentDay, PERIODS[periodIndex - k + 2])]

\* for (p = periodIndex - 1; p >= 0; p--)
PreviousPeriodsSameDay(currentDay, periodIndex) ==
  [k \in 1..periodIndex |-> SlotKey(currentDay, PERIODS[periodIndex - k + 1])]

\* fault: the earlier days are scanned from Mon up (d = 0; d < dayIndex; d++)
PreviousDays_Ascending(dayIndex) ==
  Concat([k \in 1..dayIndex |-> AllPeriodsOfDay(k - 1)])

\* for (d = dayIndex - 1; d >= 0; d--)
PreviousDays(dayIndex) ==
  Concat([k \in 1..dayIndex |-> AllPeriodsOfDay(dayIndex - k)])

\* fault: the earlier periods of the day are tried before the later days
SearchOrder_PreviousPeriodsFirst(currentSlot) ==
  IF currentSlot = <<>> THEN <<>>
  ELSE LET parts == Split(currentSlot, "-")
           currentDay == parts[1]
           currentPeriod == IF Len(parts) >= 2 THEN parts[2] ELSE Undefined
           dayIndex == IndexOf(DAYS, currentDay)
           periodIndex == IndexOf(PERIODS, currentPeriod)
       IN  IF dayIndex = -1 \/ periodIndex = -1 THEN <<>>
           ELSE NextPeriodsSameDay(currentDay, periodIndex)
                  \o PreviousPeriodsSameDay(currentDay, periodIndex)
                  \o NextDays(dayIndex)
                  \o PreviousDays(dayIndex)

\* the candidates of findNextAvailableSlot in the order it tests them;
\* none when the guards of lines 77 and 83 return null
SearchOrder(currentSlot) ==
  IF currentSlot = <<>> THEN <<>>
  ELSE LET parts == Split(currentSlot, "-")
           currentDay == parts[1]
           currentPeriod == IF Len(parts) >= 2 THEN parts[2] ELSE Undefined
           dayIndex == IndexOf(DAYS, currentDay)
           periodIndex == IndexOf(PERIODS, currentPeriod)
       IN  IF dayIndex = -1 \/ periodIndex = -1 THEN <<>>
           ELSE NextPeriodsSameDay(currentDay, periodIndex)
                  \o NextDays(dayIndex)
                  \o PreviousPeriodsSameDay(currentDay, periodIndex)
                  \o PreviousDays(dayIndex)

\* position in SearchOrder of the first available candidate, 0 when none
FirstAvailable(currentSlot, teacher, room, group, occ) ==
  LET order == SearchOrder(currentSlot)
      hits == {k \in 1..Len(order) : isSlotAvailable(order[k], teacher, room, group, occ)}
  IN  IF hits = {} THEN 0 ELSE CHOOSE k \in hits : \A m \in hits : k <= m

findNextAvailableSlot(currentSlot, teacher, room, group, occ) ==
  LET k == FirstAvailable(currentSlot, teacher, room, group, occ)
  IN  IF k = 0 THEN Null ELSE SearchOrder(currentSlot)[k]

\* the candidates on which the search called isSlotAvailable before it returned
TestedCandidates(currentSlot, teacher, room, group, occ) ==
  LET k == FirstAvailable(currentSlot, teacher, room, group, occ)
      order == SearchOrder(currentSlot)
  IN  IF k = 0 THEN order ELSE SubSeq(order, 1, k)

(***************************************************************************)
(* Resolution pass.                                                        *)
(***************************************************************************)
\* the predicate of rows.filter
IsValidRow(row) ==
  LET slot == slotFromRow(row)
  IN  /\ slot # <<>>
      /\ Includes(slot, "-")
      /\ (Truthy(row.teacher) \/ Truthy(row.room) \/ Truthy(row.group))

\* fault: row.sourceFile ?? "unknown", which keeps the empty string
SourceKey_Nullish(row) ==
  IF row.sourceFile # Undefined THEN row.sourceFile
  ELSE <<"u","n","k","n","o","w","n">>

\* row.sourceFile || "unknown"
SourceKey(row) ==
  IF Truthy(row.sourceFile) THEN row.sourceFile
  ELSE <<"u","n","k","n","o","w","n">>

\* fault: the Assignment is built from the trimmed resources
MakeAssignment_Trimmed(row, assignedSlot) ==
  [day |-> row.day, period |-> row.period, subject |-> row.subject,
   teacher |-> Trim(OrEmpty(row.teacher)), group |-> Trim(OrEmpty(row.group)),
   room |-> Trim(OrEmpty(row.room)),
   sourceFile |-> row.sourceFile, assignedSlot |-> assignedSlot]

\* { ...row, assignedSlot }
MakeAssignment(row, assignedSlot) ==
  [day |-> row.day, period |-> row.period, subject |-> row.subject,
   teacher |-> row.teacher, group |-> row.group, room |-> row.room,
   sourceFile |-> row.sourceFile, assignedSlot |-> assignedSlot]

\* the Map after `if (!has(key)) set(key, []); get(key).push(ref)`
PushTo(map, key, ref) ==
  [k \in DOMAIN map \cup {key} |->
     IF k = key THEN (IF key \in DOMAIN map THEN Append(map[key], ref) ELSE <<ref>>)
     ELSE map[k]]

\* fault: the result of the search is assigned also when it is null
ChooseSlot_NoFallback(originalSlot, hasConflict, alternativeSlot) ==
  IF hasConflict THEN alternativeSlot ELSE originalSlot

\* the slot mergeAndResolve assigns once the original slot and the search are known
ChooseSlot(originalSlot, hasConflict, alternativeSlot) ==
  IF hasConflict /\ alternativeSlot # Null /\ alternativeSlot # <<>>
  THEN alternativeSlot
  ELSE originalSlot

(***************************************************************************)
(* Conflict reporter.                                                      *)
(***************************************************************************)
ResourceKinds == <<"teacher", "room", "group">>

\* fault: the resource is compared as written, without trim()
ResourceOf_Untrimmed(a, kind) ==
  OrEmpty(IF kind = "teacher" THEN a.teacher
          ELSE IF kind = "room" THEN a.room ELSE a.group)

\* (assignment.teacher || "").trim(), likewise room and group
ResourceOf(a, kind) ==
  Trim(OrEmpty(IF kind = "teacher" THEN a.teacher
               ELSE IF kind = "room" THEN a.room ELSE a.group))

\* fault: conflictingEntries.length >= 1
IsCollision_AtLeastOne(conflictingEntries) == Len(conflictingEntries) >= 1

\* fault: conflictingEntries.length > 2
IsCollision_MoreThanTwo(conflictingEntries) == Len(conflictingEntries) > 2

\* conflictingEntries.length > 1
IsCollision(conflictingEntries) == Len(conflictingEntries) > 1

\* the references, in array order, to the assignments whose assignedSlot is slot
SlotAssignments(as, slot) ==
  LET AtSlot(k) == as[k].assignedSlot = slot
  IN  SelectSeq([k \in 1..Len(as) |-> k], AtSlot)

\* the Conflicts of one kind pushed for one slot, in the key order of the kind's Map
ConflictsOfKind(as, slot, kind) ==
  LET slotAssignments == SlotAssignments(as, slot)
      HasResource(k) == ResourceOf(as[k], kind) # <<>>
      named == SelectSeq(slotAssignments, HasResource)
      keys == FirstSeen([k \in 1..Len(named) |-> ResourceOf(as[named[k]], kind)])
      Entries(res) ==
        LET Same(k) == ResourceOf(as[k], kind) = res
        IN  SelectSeq(named, Same)
      all == [k \in 1..Len(keys) |->
                [type |-> kind, slot |-> slot, resource |-> keys[k],
                 conflictingEntries |-> Entries(keys[k])]]
      Colliding(c) == IsCollision(c.conflictingEntries)
  IN  SelectSeq(all, Colliding)

\* fault: slotAssignments.length <= 2 skips the slot
ConflictsOfSlot_SkipsPairs(as, slot) ==
  IF Len(SlotAssignments(as, slot)) <= 2 THEN <<>>
  ELSE Concat([k \in 1..Len(ResourceKinds) |-> ConflictsOfKind(as, slot, ResourceKinds[k])])

\* the Conflicts pushed for one slot of slotMap
ConflictsOfSlot(as, slot) ==
  IF Len(SlotAssignments(as, slot)) <= 1 THEN <<>>
  ELSE Concat([k \in 1..Len(ResourceKinds) |-> ConflictsOfKind(as, slot, ResourceKinds[k])])

detectConflicts(as) ==
  LET HasSlot(k) == as[k].assignedSlot # <<>>
      placed == SelectSeq([k \in 1..Len(as) |-> k], HasSlot)
      slots == FirstSeen([k \in 1..Len(placed) |-> as[placed[k]].assignedSlot])
  IN  Concat([k \in 1..Len(slots) |-> ConflictsOfSlot(as, slots[k])])

(***************************************************************************)
(* Inputs of mergeAndResolve.                                              *)
(***************************************************************************)
Row(day, period, subject, teacher, group, room, sourceFile) ==
  [day |-> day, period |-> period, subject |-> subject, teacher |-> teacher,
   group |-> group, room |-> room, sourceFile |-> sourceFile]

sT == <<"T">>
sU == <<"U">>
sG1 == <<"G","1">>
sG2 == <<"G","2">>
sR1 == <<"R","1">>
sR2 == <<"R","2">>
sA == <<"a">>
sB == <<"b">>
sMath == <<"M","a","t","h">>

RowPool ==
  { Row(DAYS[1], PERIODS[1], sMath, sT, sG1, sR1, sA),
    Row(DAYS[1], PERIODS[1], <<"S","c","i">>, sT, sG2, sR2, sB),
    Row(<<"M","O","N","D","A","Y">>, <<"P","e","r","i","o","d"," ","1">>,
        Undefined, <<" ","T">>, Undefined, <<>>, Undefined),
    Row(<<"M","o","n">>, <<"2">>, sMath, sU, <<>>, sR1, <<>>),
    Row(DAYS[1], <<"7">>, sMath, sT, sG1, sR1, sA),
    Row(<<"X","y","z">>, PERIODS[1], sMath, <<"T"," ">>, <<>>, <<>>, sB),
    Row(DAYS[1], PERIODS[1], sMath, <<" ">>, <<>>, <<>>, sA),
    Row(DAYS[1], PERIODS[1], sMath, <<>>, <<>>, <<>>, sA),
    Row(<<>>, <<"P","e","r","i","o","d"," ","1">>, sMath, sT, sG1, sR1, sB),
    Row(DAYS[5], PERIODS[6], Undefined, sU, sG1, sR1, sB),
    Row(<<"t","u","e">>, <<" ","p","1"," ">>, sMath, Undefined, <<" ","G","1">>, sR1, Undefined) }

RECURSIVE SeqsUpTo(_, _)
SeqsUpTo(S, n) ==
  IF n = 0 THEN {<<>>}
  ELSE LET shorter == SeqsUpTo(S, n - 1)
       IN  shorter \cup {Append(q, x) : q \in {r \in shorter : Len(r) = n - 1}, x \in S}

\* the decimal digits of a natural number
RECURSIVE NumStr(_)
NumStr(n) ==
  IF n < 10 THEN <<DigitChars[n + 1]>>
  ELSE NumStr(n \div 10) \o <<DigitChars[(n % 10) + 1]>>

\* k rows of teacher T that all ask for one slot.  With own = TRUE every row
\* has a room and a group of its own and, from the second row on, the
\* teacher is padded with whitespace; otherwise the rows have no room and
\* a group of whitespace only
FillRows(day, period, k, own) ==
  [n \in 1..k |->
     Row(day, period, Undefined,
         IF own /\ n > 1 THEN <<" ">> \o sT \o <<" ">> ELSE sT,
         IF own THEN <<"G">> \o NumStr(n) ELSE <<" ">>,
         IF own THEN <<"R">> \o NumStr(n) ELSE Undefined,
         sA)]

\* every length for Mon-P1; for the other slots the lengths that fill the
\* grid and overfill it
FillLengths(d, p) ==
  IF d = 1 /\ p = 1 THEN 0..MaxFill
  ELSE {Len(DAYS) * Len(PERIODS), MaxFill}

FillInputs ==
  { FillRows(DAYS[sl[1]], PERIODS[sl[2]], sl[3], own) :
      sl \in { <<d, p, k>> \in (1..Len(DAYS)) \X (1..Len(PERIODS)) \X (0..MaxFill) :
                 k \in FillLengths(d, p) },
      own \in BOOLEAN }

Inputs == SeqsUpTo(RowPool, MaxRows)

(***************************************************************************)
(* The state machine: one call of mergeAndResolve after another.           *)
(* trace is a history variable: for each row processed, what the loop      *)
(* body computed for it.  history is a history variable: the inputs and    *)
(* results of the calls whose results the caller kept.  norm holds one     *)
(* application of a normalizer: its argument and what it returned.         *)
(***************************************************************************)
Init ==
  /\ pc = "idle"
  /\ rows = <<>>
  /\ validRows = <<>>
  /\ idx = 1
  /\ assignments = <<>>
  /\ separatedTimetables = <<>>
  /\ occupiedSlots = <<>>
  /\ conflicts = <<>>
  /\ trace = <<>>
  /\ history = <<>>
  /\ norm = <<>>

\* fault: the occupancy index outlives the call (a module-level Map)
Enter_KeepsIndex(input) ==
  /\ rows' = input
  /\ validRows' = <<>>
  /\ idx' = 1
  /\ assignments' = <<>>
  /\ separatedTimetables' = <<>>
  /\ occupiedSlots' = occupiedSlots
  /\ conflicts' = <<>>
  /\ trace' = <<>>
  /\ pc' = "filter"
  /\ UNCHANGED <<history, norm>>

\* entry of mergeAndResolve: fresh locals
Enter(input) ==
  /\ rows' = input
  /\ validRows' = <<>>
  /\ idx' = 1
  /\ assignments' = <<>>
  /\ separatedTimetables' = <<>>
  /\ occupiedSlots' = <<>>
  /\ conflicts' = <<>>
  /\ trace' = <<>>
  /\ pc' = "filter"
  /\ UNCHANGED <<history, norm>>

Call ==
  /\ pc = "idle"
  /\ \E input \in Inputs : Enter(input)

CallFill ==
  /\ pc = "idle"
  /\ \E input \in FillInputs : Enter(input)

FilterRows ==
  /\ pc = "filter"
  /\ validRows' = SelectSeq(rows, IsValidRow)
  /\ pc' = "loop"
  /\ UNCHANGED <<rows, idx, assignments, separatedTimetables, occupiedSlots,
                 conflicts, trace, history, norm>>

\* one iteration of `for (const row of validRows)`
ProcessRow ==
  /\ pc = "loop"
  /\ idx <= Len(validRows)
  /\ LET row == validRows[idx]
         originalSlot == slotFromRow(row)
         teacher == Trim(OrEmpty(row.teacher))
         room == Trim(OrEmpty(row.room))
         group == Trim(OrEmpty(row.group))
         sourceFile == SourceKey(row)
         hasConflict == ~isSlotAvailable(originalSlot, teacher, room, group, occupiedSlots)
         alternativeSlot ==
           IF hasConflict
           THEN findNextAvailableSlot(originalSlot, teacher, room, group, occupiedSlots)
           ELSE Null
         assignedSlot == ChooseSlot(originalSlot, hasConflict, alternativeSlot)
     IN  /\ assignments' = Append(assignments, MakeAssignment(row, assignedSlot))
         /\ separatedTimetables' =
              PushTo(separatedTimetables, sourceFile, Len(assignments) + 1)
         /\ occupiedSlots' = addToSlot(assignedSlot, teacher, room, group, occupiedSlots)
         /\ trace' = Append(trace,
              [originalSlot |-> originalSlot,
               hasConflict |-> hasConflict,
               alternativeSlot |-> alternativeSlot,
               tested |-> IF hasConflict
                          THEN TestedCandidates(originalSlot, teacher, room, group,
                                                occupiedSlots)
                          ELSE <<>>])
  /\ idx' = idx + 1
  /\ UNCHANGED <<pc, rows, validRows, conflicts, history, norm>>

\* the loop is over: second pass and return
DetectConflicts ==
  /\ pc = "loop"
  /\ idx > Len(validRows)
  /\ conflicts' = detectConflicts(assignments)
  /\ pc' = "done"
  /\ UNCHANGED <<rows, validRows, idx, assignments, separatedTimetables,
                 occupiedSlots, trace, history, norm>>

\* the caller is done with the result; the locals of the call are gone
Return ==
  /\ pc = "done"
  /\ pc' = "idle"
  /\ rows' = <<>>
  /\ validRows' = <<>>
  /\ idx' = 1
  /\ assignments' = <<>>
  /\ separatedTimetables' = <<>>
  /\ occupiedSlots' = <<>>
  /\ conflicts' = <<>>
  /\ trace' = <<>>
  /\ UNCHANGED <<history, norm>>

Next == Call \/ FilterRows \/ ProcessRow \/ DetectConflicts \/ Return

Spec == Init /\ [][Next]_vars

NextFill == CallFill \/ FilterRows \/ ProcessRow \/ DetectConflicts \/ Return

SpecFill == Init /\ [][NextFill]_vars

\* the control of a call under way moves on: the filter is left, the loop
\* takes its next row or is left.  Within NextFill these are exactly the
\* steps FilterRows, ProcessRow and DetectConflicts.
Advance ==
  /\ pc \in {"filter", "loop"}
  /\ pc' \in {"loop", "done"}
  /\ idx' \in {idx, idx + 1}
  /\ <<pc', idx'>> # <<pc, idx>>

\* a call that was entered runs on: the filter, the loop and the second
\* pass are synchronous straight-line code that nothing suspends.  Nothing
\* obliges the caller to call again.
SpecFillLive ==
  /\ Init
  /\ [][NextFill]_vars
  /\ WF_<<pc, idx>>(Advance)

(***************************************************************************)
(* Repeated calls.  The caller keeps each result; nothing a call built is  *)
(* cleared when it returns, the next call constructs its own locals.       *)
(***************************************************************************)
rMath == Row(DAYS[1], PERIODS[1], sMath, sT, sG1, sR1, sA)
rSci == Row(DAYS[1], PERIODS[1], <<"S","c","i">>, sT, sG2, sR2, sB)
rSeven == Row(DAYS[1], <<"7">>, sMath, sT, sG1, sR1, sA)
rLast == Row(DAYS[5], PERIODS[6], Undefined, sU, sG1, sR1, sB)

RepeatInputs ==
  { <<rMath>>, <<rMath, rSci>>, <<rSci, rMath>>, <<rSeven, rSeven>>,
    <<rLast, rMath, rLast>>, <<rSeven, rMath, rMath>> }

\* the array of the assignedSlot values of the result
AssignedSlots(as) == [k \in 1..Len(as) |-> as[k].assignedSlot]

CallAgain ==
  /\ pc = "idle"
  /\ Len(history) < MaxCalls
  /\ \E input \in RepeatInputs : Enter(input)

\* return { assignments, conflicts, separatedTimetables } to a caller that keeps it
ReturnResult ==
  /\ pc = "done"
  /\ pc' = "idle"
  /\ history' = Append(history, [rows |-> rows,
                                  assignedSlots |-> AssignedSlots(assignments),
                                  conflicts |-> conflicts])
  /\ UNCHANGED <<rows, validRows, idx, assignments, separatedTimetables,
                 occupiedSlots, conflicts, trace, norm>>

NextRepeat == CallAgain \/ FilterRows \/ ProcessRow \/ DetectConflicts \/ ReturnResult

SpecRepeat == Init /\ [][NextRepeat]_vars

(***************************************************************************)
(* The normalizers as pure functions: normalizeDay or normalizePeriod is   *)
(* applied to a spelling, then to its own result.                          *)
(***************************************************************************)
ToUpperChar(c) ==
  IF \E k \in 1..26 : LowerChars[k] = c
  THEN UpperChars[CHOOSE k \in 1..26 : LowerChars[k] = c]
  ELSE c

\* the spellings of a lower-case word in every mix of letter cases
CaseVariants(word) ==
  { [k \in 1..Len(word) |-> IF k \in U THEN ToUpperChar(word[k]) ELSE word[k]] :
      U \in SUBSET (1..Len(word)) }

\* the full names of the five days, in the order of DAYS
DayNames ==
  << <<"m","o","n","d","a","y">>, <<"t","u","e","s","d","a","y">>,
     <<"w","e","d","n","e","s","d","a","y">>, <<"t","h","u","r","s","d","a","y">>,
     <<"f","r","i","d","a","y">> >>

\* the full names and their 3-letter abbreviations in every mix of letter
\* cases, each with the day it spells
DaySpellings ==
  UNION { { [kind |-> "day", input |-> v, expected |-> DAYS[d],
             output |-> Undefined, again |-> Undefined] :
              v \in CaseVariants(DayNames[d]) \cup CaseVariants(SubSeq(DayNames[d], 1, 3)) } :
          d \in 1..Len(DAYS) }

\* "Period n", "Pn" and "n" for the six periods
PeriodSpellings ==
  UNION { { [kind |-> "period", input |-> v, expected |-> PERIODS[n],
             output |-> Undefined, again |-> Undefined] :
              v \in { <<"P","e","r","i","o","d"," ">> \o <<DigitChars[n + 1]>>,
                       <<"P", DigitChars[n + 1]>>,
                       <<DigitChars[n + 1]>> } } :
          n \in 1..Len(PERIODS) }

Normalize(kind, x) == IF kind = "day" THEN normalizeDay(x) ELSE normalizePeriod(x)

InitNorm ==
  /\ pc = "idle"
  /\ rows = <<>>
  /\ validRows = <<>>
  /\ idx = 1
  /\ assignments = <<>>
  /\ separatedTimetables = <<>>
  /\ occupiedSlots = <<>>
  /\ conflicts = <<>>
  /\ trace = <<>>
  /\ history = <<>>
  /\ norm \in DaySpellings \cup PeriodSpellings

ApplyNormalizer ==
  /\ norm # <<>>
  /\ norm.output = Undefined
  /\ norm' = [norm EXCEPT !.output = Normalize(norm.kind, norm.input)]
  /\ UNCHANGED <<pc, rows, validRows, idx, assignments, separatedTimetables,
                 occupiedSlots, conflicts, trace, history>>

ReapplyNormalizer ==
  /\ norm # <<>>
  /\ norm.output # Undefined
  /\ norm.again = Undefined
  /\ norm' = [norm EXCEPT !.again = Normalize(norm.kind, norm.output)]
  /\ UNCHANGED <<pc, rows, validRows, idx, assignments, separatedTimetables,
                 occupiedSlots, conflicts, trace, history>>

NextNorm == ApplyNormalizer \/ ReapplyNormalizer

SpecNorm == InitNorm /\ [][NextNorm]_vars

(***************************************************************************)
(* findNextAvailableSlot on its own.  The index it is handed is one that   *)
(* addToSlot built: every slot of the grid holds teacher T in room R1,     *)
(* except a few that no row took or that only group G2 took.  The search   *)
(* is called as the loop body calls it, from a row, with the normalized    *)
(* slot and the trimmed resources of the row.                              *)
(***************************************************************************)
RECURSIVE SetsUpTo(_, _)
SetsUpTo(S, n) ==
  IF n = 0 THEN {{}}
  ELSE LET smaller == SetsUpTo(S, n - 1)
       IN  smaller \cup {F \cup {x} : F \in smaller, x \in S}

\* the index after addToSlot for each commit of cs in turn
RECURSIVE CommitAll(_, _)
CommitAll(cs, occ) ==
  IF cs = <<>> THEN occ
  ELSE CommitAll(Tail(cs),
                 addToSlot(cs[1].slot, cs[1].teacher, cs[1].room, cs[1].group, occ))

GridSeq == Concat([d \in 1..Len(DAYS) |-> [p \in 1..Len(PERIODS) |-> SlotKey(DAYS[d], PERIODS[p])]])

SearchIndex(free, bare) ==
  LET commit(k) ==
        IF GridSeq[k] \in free
        THEN [slot |-> GridSeq[k], teacher |-> <<>>, room |-> <<>>, group |-> sG2]
        ELSE [slot |-> GridSeq[k], teacher |-> sT, room |-> sR1, group |-> <<>>]
      Taken(c) == ~(bare /\ c.slot \in free)
  IN  CommitAll(SelectSeq([k \in 1..Len(GridSeq) |-> commit(k)], Taken), <<>>)

\* the slots that may be left free: the first, a middle and the last
\* period of every day
FreePool == { SlotKey(DAYS[d], PERIODS[p]) : d \in 1..Len(DAYS), p \in {1, 3, Len(PERIODS)} }

SearchIndexes ==
  { SearchIndex(free, bare) : free \in SetsUpTo(FreePool, MaxFree), bare \in BOOLEAN }

\* one row for every slot of the grid: of teacher T alone, or of teacher U
\* in room R1 (padded with whitespace)
SearchRows ==
  { IF (d + p) % 2 = 0
    THEN Row(DAYS[d], PERIODS[p], sMath, sT, Undefined, <<>>, sA)
    ELSE Row(DAYS[d], PERIODS[p], sMath, sU, <<>>, <<" ">> \o sR1, sB) :
      d \in 1..Len(DAYS), p \in 1..Len(PERIODS) }

InitSearch ==
  /\ pc = "search"
  /\ rows = <<>>
  /\ validRows = <<>>
  /\ idx = 1
  /\ assignments = <<>>
  /\ separatedTimetables = <<>>
  /\ occupiedSlots \in SearchIndexes
  /\ conflicts = <<>>
  /\ trace = <<>>
  /\ history = <<>>
  /\ norm = <<>>

\* lines 175-188 for one row whose slot is taken
Search ==
  /\ pc = "search"
  /\ \E row \in SearchRows :
       LET originalSlot == slotFromRow(row)
           teacher == Trim(OrEmpty(row.teacher))
           room == Trim(OrEmpty(row.room))
           group == Trim(OrEmpty(row.group))
           hasConflict == ~isSlotAvailable(originalSlot, teacher, room, group, occupiedSlots)
       IN  /\ hasConflict
           /\ rows' = <<row>>
           /\ trace' = <<[originalSlot |-> originalSlot,
                          hasConflict |-> hasConflict,
                          alternativeSlot |->
                            findNextAvailableSlot(originalSlot, teacher, room, group,
                                                  occupiedSlots),
                          tested |-> TestedCandidates(originalSlot, teacher, room, group,
                                                      occupiedSlots)]>>
  /\ pc' = "searched"
  /\ UNCHANGED <<validRows, idx, assignments, separatedTimetables, occupiedSlots,
                 conflicts, history, norm>>

NextSearch == Search

SpecSearch == InitSearch /\ [][NextSearch]_vars

(***************************************************************************)
(* Vocabulary of the properties.                                           *)
(***************************************************************************)
MonP1 == <<"M","o","n","-","P","1">>
MonP2 == <<"M","o","n","-","P","2">>
FriP6 == <<"F","r","i","-","P","6">>

\* a field with surrounding whitespace removed, the empty string when absent
Trimmed(x) == IF x = Undefined THEN <<>> ELSE Trim(x)

\* the row was handled by the loop body in the last step
Processed == pc = "loop" /\ Len(assignments') = Len(assignments) + 1

\* slot s is free for resources t, r, g in index occ
FreeIn(occ, s, t, r, g) ==
  \/ s \notin DOMAIN occ
  \/ /\ (t = <<>> \/ t \notin occ[s].teachers)
     /\ (r = <<>> \/ r \notin occ[s].rooms)
     /\ (g = <<>> \/ g \notin occ[s].groups)

\* the relocation search ran for row k and found nothing
SearchFailed(k) == trace[k].hasConflict /\ trace[k].alternativeSlot = Null

(***************************************************************************)
(* C1: every Assignment returned by mergeAndResolve has an assignedSlot    *)
(* that is one of the 30 canonical keys; a row whose day or period does    *)
(* not normalize to the canonical vocabulary produces no Assignment.       *)
(***************************************************************************)
C1_AssignedSlotCanonical ==
  \A k \in 1..Len(assignments) : assignments[k].assignedSlot \in Grid

(***************************************************************************)
(* C2: a row whose teacher, room and group are all empty after trimming    *)
(* is dropped by the validity gate: it is in none of the outputs.          *)
(***************************************************************************)
C2_NoResourceRowDropped ==
  \A k \in 1..Len(assignments) :
     \/ Trimmed(assignments[k].teacher) # <<>>
     \/ Trimmed(assignments[k].room) # <<>>
     \/ Trimmed(assignments[k].group) # <<>>

(***************************************************************************)
(* C3: no silent double-booking.  After mergeAndResolve, two Assignments   *)
(* with the same non-empty trimmed teacher either have different           *)
(* assignedSlots or are both among the conflictingEntries of a reported    *)
(* Conflict of type teacher for that slot and teacher; likewise for room   *)
(* and group.                                                              *)
(***************************************************************************)
FieldOfKind(a, kind) ==
  IF kind = "teacher" THEN Trimmed(a.teacher)
  ELSE IF kind = "room" THEN Trimmed(a.room) ELSE Trimmed(a.group)

Reported(kind, slot, res, m, n) ==
  \E c \in 1..Len(conflicts) :
     /\ conflicts[c].type = kind
     /\ conflicts[c].slot = slot
     /\ conflicts[c].resource = res
     /\ \E x, y \in 1..Len(conflicts[c].conflictingEntries) :
           /\ conflicts[c].conflictingEntries[x] = m
           /\ conflicts[c].conflictingEntries[y] = n

C3_NoSilentDoubleBooking ==
  pc = "done" =>
    \A kind \in {"teacher", "room", "group"} :
      \A m, n \in 1..Len(assignments) :
         ( /\ m < n
           /\ FieldOfKind(assignments[m], kind) # <<>>
           /\ FieldOfKind(assignments[m], kind) = FieldOfKind(assignments[n], kind)
           /\ assignments[m].assignedSlot = assignments[n].assignedSlot )
         => Reported(kind, assignments[m].assignedSlot,
                     FieldOfKind(assignments[m], kind), m, n)

\* two Assignments of one teacher ended in one slot, and it is reported
C3_Witness ==
  /\ pc = "done"
  /\ \E m, n \in 1..Len(assignments) :
        /\ m < n
        /\ Trimmed(assignments[m].teacher) # <<>>
        /\ Trimmed(assignments[m].teacher) = Trimmed(assignments[n].teacher)
        /\ assignments[m].assignedSlot = assignments[n].assignedSlot
        /\ Reported("teacher", assignments[m].assignedSlot,
                    Trimmed(assignments[m].teacher), m, n)

(***************************************************************************)
(* C4: relocation fails only when the grid is saturated.  A valid row      *)
(* whose original slot is unavailable keeps it only if none of the 30      *)
(* canonical slots is available for its resources when it is processed;    *)
(* if one is, the row is assigned a slot that was available.               *)
(***************************************************************************)
C4_FailsOnlyWhenSaturated ==
  [][ Processed =>
        LET row == validRows[idx]
            t == Trimmed(row.teacher)
            r == Trimmed(row.room)
            g == Trimmed(row.group)
            original == trace'[idx].originalSlot
            free == {s \in Grid : FreeIn(occupiedSlots, s, t, r, g)}
            assigned == assignments'[idx].assignedSlot
        IN  ~FreeIn(occupiedSlots, original, t, r, g) =>
              /\ assigned = original => free = {}
              /\ free # {} => assigned \in free ]_vars

(***************************************************************************)
(* C5: exhaustive, non-duplicating coverage.  For every canonical start    *)
(* slot, the candidates findNextAvailableSlot tests when none is available *)
(* are exactly the 29 other grid slots, each once, never the start slot;   *)
(* from Mon-P1 the first candidate tested is Mon-P2.                       *)
(***************************************************************************)
C5_ExhaustiveCoverage ==
  \A k \in 1..Len(trace) :
     (SearchFailed(k) /\ trace[k].originalSlot \in Grid) =>
        LET tested == trace[k].tested
        IN  /\ Len(tested) = 29
            /\ {tested[n] : n \in 1..Len(tested)} = Grid \ {trace[k].originalSlot}
            /\ \A m, n \in 1..Len(tested) : m # n => tested[m] # tested[n]
            /\ trace[k].originalSlot = MonP1 => tested[1] = MonP2

\* a search from Fri-P6 over a full grid has failed
C5_Witness ==
  \E k \in 1..Len(trace) :
     /\ SearchFailed(k)
     /\ trace[k].originalSlot = FriP6
     /\ Len(trace[k].tested) = 29

(***************************************************************************)
(* C6: grid fill.  When k <= 30 valid rows all carry the same teacher and  *)
(* all request Mon-P1, sharing no room and no group, the i-th row is       *)
(* assigned the i-th slot of Mon-P1, ..., Mon-P6, Tue-P1, ..., Fri-P6,     *)
(* every slot is used at most once and no Conflict is reported.            *)
(***************************************************************************)
\* the i-th slot of the grid read day by day
RowMajor(i) == SlotKey(DAYS[((i - 1) \div 6) + 1], PERIODS[((i - 1) % 6) + 1])

\* the input is rows of one teacher that all ask for Mon-P1 and share no
\* room and no group
OneTeacherAtMonP1 ==
  /\ rows # <<>>
  /\ validRows = rows
  /\ \A k \in 1..Len(rows) :
        /\ Trimmed(rows[k].teacher) = <<"T">>
        /\ Trimmed(rows[k].day) = <<"M","o","n">>
        /\ Trimmed(rows[k].period) = <<"P","1">>
  /\ \A m, n \in 1..Len(rows) :
        m # n =>
          /\ Trimmed(rows[m].room) = <<>> \/ Trimmed(rows[m].room) # Trimmed(rows[n].room)
          /\ Trimmed(rows[m].group) = <<>> \/ Trimmed(rows[m].group) # Trimmed(rows[n].group)

C6_GridFill ==
  OneTeacherAtMonP1 =>
    /\ \A i \in 1..Len(assignments) :
          i <= 30 => assignments[i].assignedSlot = RowMajor(i)
    /\ \A m, n \in 1..Len(assignments) :
          (m < n /\ n <= 30) => assignments[m].assignedSlot # assignments[n].assignedSlot
    /\ (pc = "done" /\ Len(rows) <= 30) => conflicts = <<>>

\* thirty rows were resolved, the last one into Fri-P6
C6_Witness ==
  /\ OneTeacherAtMonP1
  /\ pc = "done"
  /\ Len(rows) = 30
  /\ Len(assignments) = 30
  /\ assignments[30].assignedSlot = FriP6
  /\ trace[30].hasConflict

(***************************************************************************)
(* C7: saturation.  When a 31st row of the teacher requesting Mon-P1 is    *)
(* processed after 30 rows that filled the grid, relocation fails, its     *)
(* assignedSlot is Mon-P1 and the result has exactly one Conflict: of type *)
(* teacher, at Mon-P1, for that teacher, whose conflictingEntries are      *)
(* exactly the first and the 31st row.                                     *)
(***************************************************************************)
C7_Saturation ==
  (OneTeacherAtMonP1 /\ pc = "done" /\ Len(rows) = 31) =>
    /\ Len(assignments) = 31
    /\ SearchFailed(31)
    /\ assignments[31].assignedSlot = MonP1
    /\ conflicts = << [type |-> "teacher", slot |-> MonP1, resource |-> <<"T">>,
                       conflictingEntries |-> <<1, 31>>] >>

\* the 31st row was resolved after a failed search and a Conflict is reported
C7_Witness ==
  /\ OneTeacherAtMonP1
  /\ pc = "done"
  /\ Len(rows) = 31
  /\ SearchFailed(31)
  /\ Len(trace[31].tested) = 29
  /\ Len(conflicts) = 1

(***************************************************************************)
(* C8: when a valid row's teacher is already committed at the row's        *)
(* original slot and the next period of the same day is free for all of    *)
(* the row's resources, the row is assigned that next period, and the      *)
(* relocation adds no Conflict: the relocated Assignment is in no Conflict *)
(* of the Assignments made so far.                                         *)
(***************************************************************************)
\* the slot one period after a canonical slot, <<>> when there is none
NextPeriodOf(slot) ==
  IF \E d \in 1..5, p \in 1..5 : slot = SlotKey(DAYS[d], PERIODS[p])
  THEN LET dp == CHOOSE dp \in (1..5) \X (1..5) : slot = SlotKey(DAYS[dp[1]], PERIODS[dp[2]])
       IN  SlotKey(DAYS[dp[1]], PERIODS[dp[2] + 1])
  ELSE <<>>

InSomeConflict(cs, ref) ==
  \E c \in 1..Len(cs) :
     \E x \in 1..Len(cs[c].conflictingEntries) : cs[c].conflictingEntries[x] = ref

C8_NextPeriodFirst ==
  [][ Processed =>
        LET row == validRows[idx]
            t == Trimmed(row.teacher)
            r == Trimmed(row.room)
            g == Trimmed(row.group)
            original == trace'[idx].originalSlot
            next == NextPeriodOf(original)
        IN  ( /\ t # <<>>
              /\ original \in DOMAIN occupiedSlots
              /\ t \in occupiedSlots[original].teachers
              /\ next # <<>>
              /\ FreeIn(occupiedSlots, next, t, r, g) )
            => /\ assignments'[idx].assignedSlot = next
               /\ ~InSomeConflict(detectConflicts(assignments'), idx) ]_vars

\* a second row of the teacher of Mon-P1 was moved to Mon-P2
C8_Witness ==
  \E k \in 2..Len(trace) :
     /\ trace[k].hasConflict
     /\ trace[k].originalSlot = MonP1
     /\ Trimmed(assignments[k].teacher) = Trimmed(assignments[1].teacher)
     /\ assignments[1].assignedSlot = MonP1
     /\ assignments[k].assignedSlot = MonP2

(***************************************************************************)
(* C9: assignments holds exactly one Assignment per valid input row, in    *)
(* the input order of the valid rows, each with the row's original fields  *)
(* unchanged plus assignedSlot; processing a later row never changes or    *)
(* removes the Assignment of an earlier row.                               *)
(***************************************************************************)
SameFields(a, row) ==
  /\ a.day = row.day
  /\ a.period = row.period
  /\ a.subject = row.subject
  /\ a.teacher = row.teacher
  /\ a.group = row.group
  /\ a.room = row.room
  /\ a.sourceFile = row.sourceFile

C9_OnePerValidRow ==
  [][ /\ pc' \in {"loop", "done"} =>
           /\ Len(assignments') <= Len(validRows')
           /\ \A k \in 1..Len(assignments') :
                 /\ SameFields(assignments'[k], validRows'[k])
                 /\ DOMAIN assignments'[k] = DOMAIN validRows'[k] \cup {"assignedSlot"}
      /\ pc' = "done" => Len(assignments') = Len(validRows')
      /\ Processed => Len(assignments') = idx
      /\ pc = "loop" =>
           \A k \in 1..Len(assignments) :
              k <= Len(assignments') /\ assignments'[k] = assignments[k] ]_vars

\* three valid rows, one of them with padded and absent fields, were resolved
C9_Witness ==
  /\ pc = "done"
  /\ Len(validRows) = 3
  /\ Len(assignments) = 3
  /\ \E k \in 1..3 : assignments[k].teacher = <<" ","T">> /\ assignments[k].group = Undefined
  /\ \E k \in 1..3 : trace[k].hasConflict

(***************************************************************************)
(* C10: the per-source grouping is a partition of assignments.  Every      *)
(* Assignment is in exactly one group, the group keyed by its sourceFile   *)
(* (by "unknown" when sourceFile is absent or empty), and within a group   *)
(* the Assignments are in the order they were resolved.                    *)
(***************************************************************************)
GroupKeyOf(a) ==
  IF a.sourceFile = Undefined \/ a.sourceFile = <<>>
  THEN <<"u","n","k","n","o","w","n">>
  ELSE a.sourceFile

C10_GroupingIsPartition ==
  /\ \A k \in 1..Len(assignments) :
        /\ GroupKeyOf(assignments[k]) \in DOMAIN separatedTimetables
        /\ \A key \in DOMAIN separatedTimetables :
              Cardinality({x \in 1..Len(separatedTimetables[key]) :
                             separatedTimetables[key][x] = k})
                = IF key = GroupKeyOf(assignments[k]) THEN 1 ELSE 0
  /\ \A key \in DOMAIN separatedTimetables :
        /\ separatedTimetables[key] # <<>>
        /\ \A x \in 1..Len(separatedTimetables[key]) :
              separatedTimetables[key][x] \in 1..Len(assignments)
        /\ \A x, y \in 1..Len(separatedTimetables[key]) :
              x < y => separatedTimetables[key][x] < separatedTimetables[key][y]

\* rows without a source file, with an empty one and with a named one were grouped
C10_Witness ==
  /\ Len(assignments) = 3
  /\ \E k \in 1..3 : assignments[k].sourceFile = Undefined
  /\ \E k \in 1..3 : assignments[k].sourceFile = <<>>
  /\ \E k \in 1..3 : assignments[k].sourceFile = <<"a">>
  /\ Cardinality(DOMAIN separatedTimetables) = 2
  /\ Len(separatedTimetables[<<"u","n","k","n","o","w","n">>]) = 2

(***************************************************************************)
(* C11: determinism and statelessness.  Two calls of mergeAndResolve with  *)
(* the same row sequence return the same assignedSlot sequence and the     *)
(* same conflicts, whatever calls ran before or between them.              *)
(***************************************************************************)
C11_SameInputSameResult ==
  \A m, n \in 1..Len(history) :
     history[m].rows = history[n].rows =>
        /\ history[m].assignedSlots = history[n].assignedSlots
        /\ history[m].conflicts = history[n].conflicts

\* an input with a relocation was resolved before and after a call that
\* ended with a Conflict
C11_Witness ==
  /\ Len(history) = 3
  /\ history[1].rows = history[3].rows
  /\ history[2].rows # history[1].rows
  /\ history[1].assignedSlots = <<MonP1, MonP2>>
  /\ history[3].assignedSlots = <<MonP1, MonP2>>
  /\ history[2].conflicts # <<>>

(***************************************************************************)
(* C12: relocation exhaustion is always surfaced.  Every row whose         *)
(* relocation search failed, so that it kept its unavailable original      *)
(* slot, is among the conflictingEntries of a reported Conflict whose slot *)
(* is the row's assignedSlot.                                              *)
(***************************************************************************)
C12_ExhaustionSurfaced ==
  pc = "done" =>
    \A k \in 1..Len(trace) :
       SearchFailed(k) =>
          \E c \in 1..Len(conflicts) :
             /\ conflicts[c].slot = assignments[k].assignedSlot
             /\ \E x \in 1..Len(conflicts[c].conflictingEntries) :
                   conflicts[c].conflictingEntries[x] = k

\* a search over a full grid failed, from a slot other than Mon-P1, and the
\* row is in a reported Conflict
C12_Witness ==
  /\ pc = "done"
  /\ \E k \in 1..Len(trace) :
        /\ SearchFailed(k)
        /\ Len(trace[k].tested) = 29
        /\ assignments[k].assignedSlot = trace[k].originalSlot
        /\ trace[k].originalSlot # MonP1
        /\ InSomeConflict(conflicts, k)

(***************************************************************************)
(* C13: resource identities are compared after trimming.  Rows whose       *)
(* teacher (room, group) differ only in surrounding whitespace are the     *)
(* same resource for the availability check, the commit and the conflict   *)
(* detection; a resource that is empty after trimming never makes a slot   *)
(* unavailable, is never committed and is never the resource of a          *)
(* Conflict.                                                               *)
(***************************************************************************)
\* a string that is not empty and has no surrounding whitespace
Clean(x) ==
  /\ x # <<>>
  /\ x[1] \notin {" ", "\t", "\n", "\r"}
  /\ x[Len(x)] \notin {" ", "\t", "\n", "\r"}

\* the Set of one kind that the index holds for a slot, {} for an unseen slot
Committed(occ, slot, kind) ==
  IF slot \notin DOMAIN occ THEN {}
  ELSE IF kind = "teacher" THEN occ[slot].teachers
  ELSE IF kind = "room" THEN occ[slot].rooms ELSE occ[slot].groups

\* the index and the Conflicts name resources by their trimmed, non-empty
\* form, and Assignments that share one in a slot are reported together
TrimmedIdentities ==
  /\ \A slot \in DOMAIN occupiedSlots :
        \A kind \in {"teacher", "room", "group"} :
           \A x \in Committed(occupiedSlots, slot, kind) : Clean(x)
  /\ \A c \in 1..Len(conflicts) : Clean(conflicts[c].resource)
  /\ pc = "done" =>
       \A kind \in {"teacher", "room", "group"} :
          \A m, n \in 1..Len(assignments) :
             ( /\ m < n
               /\ FieldOfKind(assignments[m], kind) # <<>>
               /\ FieldOfKind(assignments[m], kind) = FieldOfKind(assignments[n], kind)
               /\ assignments[m].assignedSlot = assignments[n].assignedSlot )
             => Reported(kind, assignments[m].assignedSlot,
                         FieldOfKind(assignments[m], kind), m, n)

C13_ComparedAfterTrim ==
  [][ /\ pc' \in {"loop", "done"} => TrimmedIdentities'
      /\ Processed =>
           LET row == validRows[idx]
               original == trace'[idx].originalSlot
               assigned == assignments'[idx].assignedSlot
               Shares(kind) ==
                 /\ FieldOfKind(row, kind) # <<>>
                 /\ \E m \in 1..Len(assignments) :
                       /\ assignments[m].assignedSlot = original
                       /\ FieldOfKind(assignments[m], kind) = FieldOfKind(row, kind)
           IN  /\ trace'[idx].hasConflict
                    <=> \E kind \in {"teacher", "room", "group"} : Shares(kind)
               /\ \A kind \in {"teacher", "room", "group"} :
                     FieldOfKind(row, kind) # <<>>
                       => FieldOfKind(row, kind) \in Committed(occupiedSlots', assigned, kind)
               /\ \A kind \in {"teacher", "room", "group"} :
                     Committed(occupiedSlots', assigned, kind)
                       \subseteq Committed(occupiedSlots, assigned, kind)
                                   \cup {FieldOfKind(row, kind)} ]_vars

\* a row whose teacher is written with padding was moved away from the slot
\* of the unpadded teacher, and a padded row that kept that slot is reported
\* with it
C13_Witness ==
  /\ pc = "done"
  /\ Len(assignments) = 31
  /\ assignments[1].teacher = <<"T">>
  /\ assignments[2].teacher = <<" ","T"," ">>
  /\ trace[2].hasConflict
  /\ assignments[2].assignedSlot # assignments[1].assignedSlot
  /\ assignments[31].teacher = <<" ","T"," ">>
  /\ assignments[31].assignedSlot = assignments[1].assignedSlot
  /\ Reported("teacher", assignments[1].assignedSlot, <<"T">>, 1, 31)

(***************************************************************************)
(* C14: normalization maps every accepted spelling to the canonical value  *)
(* and is idempotent.  normalizeDay returns the canonical 3-letter day for *)
(* any letter-case variant of a full day name or 3-letter abbreviation;    *)
(* normalizePeriod returns Pn for "Period n", "Pn" and "n", n in 1..6;     *)
(* either function applied to its own canonical result returns it          *)
(* unchanged.                                                              *)
(***************************************************************************)
C14_NormalizationCanonical ==
  norm # <<>> =>
    /\ norm.output # Undefined =>
         /\ norm.output = norm.expected
         /\ norm.kind = "day" => \E d \in 1..5 : norm.output = DAYS[d]
         /\ norm.kind = "period" => \E p \in 1..6 : norm.output = PERIODS[p]
    /\ norm.again # Undefined => norm.again = norm.output

\* MONDAY was normalized to Mon, and Mon to itself
C14_Witness ==
  /\ norm # <<>>
  /\ norm.input = <<"M","O","N","D","A","Y">>
  /\ norm.output = <<"M","o","n">>
  /\ norm.again = <<"M","o","n">>

(***************************************************************************)
(* Vocabulary of the search order: the 1-based day and period of a         *)
(* canonical slot, and the phase of a candidate as seen from the slot the  *)
(* search starts from.                                                     *)
(***************************************************************************)
DayIxOf ==
  [s \in Grid |->
     CHOOSE d \in 1..Len(DAYS) : \E p \in 1..Len(PERIODS) : s = SlotKey(DAYS[d], PERIODS[p])]
PeriodIxOf ==
  [s \in Grid |->
     CHOOSE p \in 1..Len(PERIODS) : \E d \in 1..Len(DAYS) : s = SlotKey(DAYS[d], PERIODS[p])]
DayIx(slot) == DayIxOf[slot]
PeriodIx(slot) == PeriodIxOf[slot]

Phase(start, c) ==
  IF DayIx(c) = DayIx(start) /\ PeriodIx(c) > PeriodIx(start) THEN 1
  ELSE IF DayIx(c) > DayIx(start) THEN 2
  ELSE IF DayIx(c) = DayIx(start) /\ PeriodIx(c) < PeriodIx(start) THEN 3
  ELSE IF DayIx(c) < DayIx(start) THEN 4
  ELSE 0

\* day order, periods increasing within a day
DayOrder(a, b) ==
  \/ DayIx(a) < DayIx(b)
  \/ DayIx(a) = DayIx(b) /\ PeriodIx(a) < PeriodIx(b)

\* a comes before b in the order of phases 1 to 3
ForwardFirst(start, a, b) ==
  \/ Phase(start, a) < Phase(start, b)
  \/ /\ Phase(start, a) = Phase(start, b)
     /\ \/ Phase(start, a) \in {1, 2} /\ DayOrder(a, b)
        \/ Phase(start, a) = 3 /\ PeriodIx(a) > PeriodIx(b)

\* candidate c is free for the resources of the row the search ran for
SearchFree(c) ==
  FreeIn(occupiedSlots, c, Trimmed(rows[1].teacher), Trimmed(rows[1].room),
         Trimmed(rows[1].group))

\* the free candidates of phases ps of the search that ran
FreeInPhases(ps) ==
  {c \in Grid : Phase(trace[1].originalSlot, c) \in ps /\ SearchFree(c)}

(***************************************************************************)
(* C15: findNextAvailableSlot returns the first available slot in the      *)
(* order: later periods of the same day increasing, then all periods       *)
(* (increasing) of each later day in day order, and only if none of those  *)
(* is available the earlier periods of the same day decreasing; it never   *)
(* returns a slot when an earlier candidate of this order was available.   *)
(***************************************************************************)
C15_ForwardFirstOrder ==
  pc = "searched" =>
    LET start == trace[1].originalSlot
        r == trace[1].alternativeSlot
        early == FreeInPhases({1, 2, 3})
    IN  /\ early # {} =>
              /\ r \in early
              /\ \A c \in early \ {r} : ForwardFirst(start, r, c)
        /\ r # Null => r \in Grid /\ r # start /\ SearchFree(r)

\* an earlier period of the day was returned although a still earlier
\* period and a slot of an earlier day were free too
C15_Witness ==
  /\ pc = "searched"
  /\ trace[1].originalSlot = SlotKey(DAYS[3], PERIODS[4])
  /\ trace[1].alternativeSlot = SlotKey(DAYS[3], PERIODS[3])
  /\ SearchFree(SlotKey(DAYS[3], PERIODS[1]))

(***************************************************************************)
(* C16 as stated: phase 4 tries the days before the original day in day    *)
(* order Mon..Fri, periods increasing within each day; started from a Wed  *)
(* slot with phases 1-3 exhausted and both a Mon slot and a Tue slot       *)
(* available, the Mon slot is returned.                                    *)
(***************************************************************************)
C16_PrecedingDaysInDayOrder ==
  pc = "searched" =>
    LET r == trace[1].alternativeSlot
        late == FreeInPhases({4})
    IN  (FreeInPhases({1, 2, 3}) = {} /\ late # {}) =>
           /\ r \in late
           /\ \A c \in late \ {r} : DayOrder(r, c)

(***************************************************************************)
(* C16 amended: phase 4 tries the days before the original day from the    *)
(* nearest day back to Mon, periods increasing within each day; started    *)
(* from a Wed slot with phases 1-3 exhausted and both a Mon slot and a Tue *)
(* slot available, the Tue slot is returned.                               *)
(***************************************************************************)
C16_PrecedingDaysNearestFirst ==
  pc = "searched" =>
    LET r == trace[1].alternativeSlot
        late == FreeInPhases({4})
    IN  (FreeInPhases({1, 2, 3}) = {} /\ late # {}) =>
           /\ r \in late
           /\ \A c \in late \ {r} :
                 \/ DayIx(r) > DayIx(c)
                 \/ DayIx(r) = DayIx(c) /\ PeriodIx(r) < PeriodIx(c)

\* from Wed-P2 with only Mon-P1 and Tue-P3 free, Tue-P3 was returned
C16_Witness ==
  /\ pc = "searched"
  /\ trace[1].originalSlot = SlotKey(DAYS[3], PERIODS[2])
  /\ FreeInPhases({1, 2, 3, 4}) = {SlotKey(DAYS[1], PERIODS[1]), SlotKey(DAYS[2], PERIODS[3])}
  /\ trace[1].alternativeSlot = SlotKey(DAYS[2], PERIODS[3])

(***************************************************************************)
(* C17: conflicts arise only from relocation exhaustion.  Every reported   *)
(* Conflict contains at least one Assignment whose row failed the          *)
(* relocation search; if for every row the original slot was available or  *)
(* the search scanned the grid and succeeded, no Conflict is reported.      *)
(***************************************************************************)
C17_ConflictsOnlyFromExhaustion ==
  pc = "done" =>
    /\ \A c \in 1..Len(conflicts) :
          \E x \in 1..Len(conflicts[c].conflictingEntries) :
             SearchFailed(conflicts[c].conflictingEntries[x])
    /\ (\A k \in 1..Len(trace) : ~SearchFailed(k)) => conflicts = <<>>

\* a Conflict of two entries was reported: the row of the first found its
\* slot free, the search for the second returned null without a scan
C17_Witness ==
  /\ pc = "done"
  /\ \E c \in 1..Len(conflicts) :
        LET es == conflicts[c].conflictingEntries
        IN  /\ Len(es) = 2
            /\ ~trace[es[1]].hasConflict
            /\ SearchFailed(es[2])
            /\ trace[es[2]].tested = <<>>

(***************************************************************************)
(* C18: no unnecessary relocation.  When the original slot of a valid row  *)
(* is available for all of its non-empty resources at the moment the row   *)
(* is processed, its assignedSlot is its original normalized slot and      *)
(* findNextAvailableSlot is not called.                                    *)
(***************************************************************************)
C18_NoUnnecessaryRelocation ==
  [][ Processed =>
        LET row == validRows[idx]
            original == trace'[idx].originalSlot
        IN  FreeIn(occupiedSlots, original, Trimmed(row.teacher), Trimmed(row.room),
                   Trimmed(row.group)) =>
              /\ assignments'[idx].assignedSlot = original
              /\ ~trace'[idx].hasConflict
              /\ trace'[idx].tested = <<>>
              /\ trace'[idx].alternativeSlot = Null ]_vars

\* a row with a teacher kept its slot, without a search, although an
\* earlier row with other resources already held that slot
C18_Witness ==
  \E k \in 1..Len(trace) :
     /\ ~trace[k].hasConflict
     /\ trace[k].tested = <<>>
     /\ Trimmed(assignments[k].teacher) # <<>>
     /\ assignments[k].assignedSlot = trace[k].originalSlot
     /\ \E j \in 1..(k - 1) :
           /\ assignments[j].assignedSlot = assignments[k].assignedSlot
           /\ Trimmed(assignments[j].teacher) # <<>>

(***************************************************************************)
(* C19: the occupancy index is append-only and always committed.  After    *)
(* each row is processed, each of its non-empty trimmed resources is       *)
(* recorded at its assignedSlot, also when relocation failed; once a       *)
(* (slot, resource) pair is in the index it stays there for the rest of    *)
(* the run, so a later row with that resource never finds that slot        *)
(* available.                                                              *)
(***************************************************************************)
C19_IndexAppendOnlyAndCommitted ==
  [][ pc' # "idle" =>
        /\ \A slot \in DOMAIN occupiedSlots :
              /\ slot \in DOMAIN occupiedSlots'
              /\ \A kind \in {"teacher", "room", "group"} :
                    Committed(occupiedSlots, slot, kind)
                      \subseteq Committed(occupiedSlots', slot, kind)
        /\ Processed =>
              LET row == validRows[idx]
                  assigned == assignments'[idx].assignedSlot
                  Held(slot) ==
                    \E kind \in {"teacher", "room", "group"} :
                       FieldOfKind(row, kind) \in Committed(occupiedSlots, slot, kind)
              IN  /\ assigned \in DOMAIN occupiedSlots'
                  /\ \A kind \in {"teacher", "room", "group"} :
                        FieldOfKind(row, kind) # <<>>
                          => FieldOfKind(row, kind) \in Committed(occupiedSlots', assigned, kind)
                  /\ Held(trace'[idx].originalSlot) => trace'[idx].hasConflict
                  /\ trace'[idx].alternativeSlot # Null
                        => ~Held(trace'[idx].alternativeSlot)
                  /\ Held(assigned) =>
                        trace'[idx].hasConflict /\ trace'[idx].alternativeSlot = Null ]_vars

\* the search for row 31 failed on a full grid; its room and group are in
\* the index at the slot it kept, next to those of row 1
C19_Witness ==
  /\ pc = "done"
  /\ Len(trace) = 31
  /\ SearchFailed(31)
  /\ <<"R","3","1">> \in Committed(occupiedSlots, assignments[31].assignedSlot, "room")
  /\ <<"G","3","1">> \in Committed(occupiedSlots, assignments[31].assignedSlot, "group")
  /\ <<"R","1">> \in Committed(occupiedSlots, assignments[31].assignedSlot, "room")

(***************************************************************************)
(* C20: Conflict records are well formed and unique.  detectConflicts      *)
(* emits at most one Conflict per (type, slot, resource); every Conflict   *)
(* has at least 2 conflictingEntries, all with assignedSlot equal to the   *)
(* Conflict's slot and the trimmed field of the Conflict's type equal to   *)
(* its resource; the entries are all the Assignments at that slot with     *)
(* that resource.                                                          *)
(***************************************************************************)
C20_ConflictsWellFormed ==
  pc = "done" =>
    /\ \A c, d \in 1..Len(conflicts) :
          ( /\ conflicts[c].type = conflicts[d].type
            /\ conflicts[c].slot = conflicts[d].slot
            /\ conflicts[c].resource = conflicts[d].resource ) => c = d
    /\ \A c \in 1..Len(conflicts) :
          LET es == conflicts[c].conflictingEntries
          IN  /\ conflicts[c].type \in {"teacher", "room", "group"}
              /\ Len(es) >= 2
              /\ \A x, y \in 1..Len(es) : es[x] = es[y] => x = y
              /\ {es[x] : x \in 1..Len(es)} =
                    {k \in 1..Len(assignments) :
                       /\ assignments[k].assignedSlot = conflicts[c].slot
                       /\ FieldOfKind(assignments[k], conflicts[c].type)
                            = conflicts[c].resource}

\* one slot has a Conflict of each type, each of two entries
C20_Witness ==
  /\ pc = "done"
  /\ \E c, d, e \in 1..Len(conflicts) :
        /\ conflicts[c].slot = conflicts[d].slot
        /\ conflicts[d].slot = conflicts[e].slot
        /\ conflicts[c].type = "teacher"
        /\ conflicts[d].type = "room"
        /\ conflicts[e].type = "group"
        /\ Len(conflicts[c].conflictingEntries) = 2
        /\ conflicts[d].conflictingEntries = conflicts[c].conflictingEntries
        /\ conflicts[e].conflictingEntries = conflicts[c].conflictingEntries

(***************************************************************************)
(* C21: the resolution pass always terminates and is bounded.  Every call  *)
(* that is entered returns; each valid row is processed once and causes at *)
(* most 30 availability checks (1 for the original slot plus at most 29    *)
(* candidates), so the whole pass makes at most 30 x (number of valid      *)
(* rows) checks.                                                           *)
(***************************************************************************)
\* the calls of isSlotAvailable made for the k-th row processed
ChecksOfRow(k) == 1 + Len(trace[k].tested)

RECURSIVE TotalChecks(_)
TotalChecks(n) == IF n = 0 THEN 0 ELSE TotalChecks(n - 1) + ChecksOfRow(n)

PassBounded ==
  /\ pc \in {"loop", "done"} =>
        /\ Len(trace) = idx - 1
        /\ Len(assignments) = idx - 1
        /\ idx <= Len(validRows) + 1
        /\ \A k \in 1..Len(trace) :
              /\ ChecksOfRow(k) <= 30
              /\ ~trace[k].hasConflict => ChecksOfRow(k) = 1
        /\ TotalChecks(Len(trace)) <= 30 * Len(validRows)
  /\ pc = "done" => Len(assignments) = Len(validRows)

C21_TerminatesAndBounded ==
  /\ []PassBounded
  /\ (pc = "filter") ~> (pc = "done")

\* a pass over 31 rows is over, and one of its rows caused 30 checks
C21_Witness ==
  /\ pc = "done"
  /\ Len(validRows) = 31
  /\ \E k \in 1..Len(trace) : ChecksOfRow(k) = 30

(***************************************************************************)
(* C22: index/assignment consistency.  After any prefix of rows has been   *)
(* processed, for every slot the index's teacher set is exactly the set of *)
(* non-empty trimmed teachers of the Assignments made so far with that     *)
(* assignedSlot, and likewise for rooms and groups; hence                  *)
(* isSlotAvailable(slot, t, r, g) is false exactly when some earlier       *)
(* Assignment at that slot shares a non-empty resource with the row.       *)
(***************************************************************************)
\* the non-empty trimmed resources of one kind of the Assignments at a slot
AssignedResources(slot, kind) ==
  {FieldOfKind(assignments[k], kind) :
     k \in {n \in 1..Len(assignments) : assignments[n].assignedSlot = slot}} \ {<<>>}

\* the slots that some Assignment has
SlotsAssigned == {assignments[k].assignedSlot : k \in 1..Len(assignments)}

\* trimmed resources a row may ask about
ProbeTeachers == {<<>>, sT, sU}
ProbeRooms == {<<>>, sR1, sR2}
ProbeGroups == {<<>>, sG1, sG2}

C22_IndexMatchesAssignments ==
  pc \in {"loop", "done"} =>
    /\ DOMAIN occupiedSlots = SlotsAssigned
    /\ \A slot \in SlotsAssigned \cup {MonP1, FriP6} :
          /\ \A kind \in {"teacher", "room", "group"} :
                Committed(occupiedSlots, slot, kind) = AssignedResources(slot, kind)
          /\ \A t \in ProbeTeachers, r \in ProbeRooms, g \in ProbeGroups :
                ~isSlotAvailable(slot, t, r, g, occupiedSlots)
                  <=> \/ t # <<>> /\ t \in AssignedResources(slot, "teacher")
                      \/ r # <<>> /\ r \in AssignedResources(slot, "room")
                      \/ g # <<>> /\ g \in AssignedResources(slot, "group")

\* the loop has put two rows of different teachers and rooms in one slot,
\* and a row whose teacher is written with padding in another
C22_Witness ==
  /\ pc = "loop"
  /\ \E slot \in DOMAIN occupiedSlots :
        /\ Cardinality(occupiedSlots[slot].teachers) = 2
        /\ Cardinality(occupiedSlots[slot].rooms) = 2
  /\ \E k \in 1..Len(assignments) :
        /\ assignments[k].teacher # Undefined
        /\ assignments[k].teacher # Trimmed(assignments[k].teacher)

====
